---------------------------- MODULE Spec2Model ----------------------------
(***************************************************************************)
(* Model of the trade execution engine of src/trading_manager.py:          *)
(* TradingManager.buy_tokens, TradingManager.sell_tokens, the approval     *)
(* gate _ensure_token_approval_for_contract and the sender                 *)
(* _send_transaction_with_retry, run against a chain that keeps the        *)
(* wallet's transaction counts and the token allowance.                    *)
(*                                                                         *)
(* Every RPC round trip of a trade is one action; the local computation    *)
(* that follows the round trip in the code belongs to the same action.     *)
(* Amounts of the request are counted in micro-units (1e-6 of a coin or    *)
(* token); base units are kept as a pair [m, d] standing for               *)
(* m * 10^(d-6), so that the 18-decimal fallback needs no big integers.    *)
(* An exception message is the set of the signatures it contains, because  *)
(* the code classifies messages by substring tests.                        *)
(***************************************************************************)
EXTENDS Integers, Sequences, FiniteSets, TLC

\* ------------------------------------------------------------------ bounds
MaxSmallOut == 1
MaxAmount == 1
MaxExternal == 1
MaxGasPrice == 3
MaxGuardOut == 100

\* ------------------------------------------------------- program constants
DefaultGas == 300000
MaxRetries == 3
FallbackDecimals == 18
DefaultGasPriceGwei == 10
ApproveDefaultGasPriceGwei == 5

Trades == {"t1", "t2"}
Directions == {"Buy", "Sell"}

\* Quote outputs (base units of the output asset) the pool can return.
QuoteOutputs == (0..MaxSmallOut) \cup {1000}
\* Slippage tolerances of a request, in basis points (slippage% * 100).
ToleranceBps == {0, 50, 10000}
Amounts == (-1)..MaxAmount
TokenDecimals == {6, FallbackDecimals}
GasEstimates == {100000}
SuggestedGasPrices == {MaxGasPrice}

\* Signatures the code looks for in exception messages.
SigPanic == "Panic error 0x11"
SigInsuf == "INSUFFICIENT_OUTPUT_AMOUNT"
SigK == "UNISWAPV2: K"
SigNonce == "nonce too low"
SigNonceIssue == "Nonce issue after"
\* Messages a reverting simulation can carry (the empty set: no known signature).
SimErrors == {{SigPanic}, {SigInsuf}, {SigK}, {}}
\* Messages a node can answer a send with when it does not take the transaction.
SendErrors == {{SigInsuf}, {SigK}, {}}

\* ------------------------------------------------------------ arithmetic
\* Truncation toward zero of n / d (Python's int() of a float quotient), d > 0.
TruncDiv(n, d) == IF n >= 0 THEN n \div d ELSE -((-n) \div d)

\* Values x <= 1099 where the double product x * 0.70 lies just below the
\* integer 7x/10, so that int(x * 0.70) is one less than floor(7x/10)
\* (0.70 is the double 0.6999999999999999556).
RoundsBelow70 == {90, 170, 180, 330, 340, 350, 360, 650, 660, 670, 680, 690,
                  700, 710, 720, 730}

\* Tolerances whose double factor (1 - slippage / 100) lies below the exact
\* value 1 - bps/10000 by more than the rounding of the product absorbs:
\* 1 - 80.0/100 = 0.19999999999999996 and 1 - 90.0/100 = 0.09999999999999998.
\* For them a product that is an integer in exact arithmetic is a double just
\* below it, and int() drops it to the integer before.
FactorBelow == {8000, 9000}

MulSlippageIgnored(out, bps) == out
\* int(out * (1 - slippage / 100)) with slippage = bps / 100, as CPython
\* computes it for every out <= 1001 and every tolerance of ToleranceBps.
MulSlippage(out, bps) ==
    LET exact == TruncDiv(out * (10000 - bps), 10000)
        below == \/ /\ bps \in FactorBelow
                    /\ out > 0
                    /\ (out * (10000 - bps)) % 10000 = 0
                 \/ /\ bps = 3000
                    /\ out \in RoundsBelow70
    IN IF below THEN exact - 1 ELSE exact

\* int(x * 0.95): the double product truncates to floor(95x/100) for x <= 5000.
Mul95(x) == (x * 95) \div 100
\* int(x * 0.70)
Mul70(x) == IF x \in RoundsBelow70 THEN (x * 7) \div 10 - 1 ELSE (x * 7) \div 10
\* int(x * 0.50), int(x * 0.80), int(x * 0.85): exact floors for x <= 5000.
Mul50(x) == x \div 2
Mul80(x) == (x * 4) \div 5
Mul85(x) == (x * 17) \div 20
\* int(x * 1.5), int(x * 1.2), int(x * 1.6): exact floors for x <= 5000 and
\* for the gas estimates of GasEstimates and DefaultGas.
Mul150(x) == (x * 3) \div 2
Mul120(x) == (x * 6) \div 5
Mul160(x) == (x * 8) \div 5

SlippageGuardFloorBelowTwo(out, bps) ==
    LET m == MulSlippage(out, bps)
    IN IF m <= 1 THEN Mul95(out) ELSE m
\* min_tokens (buy_tokens) and min_native (sell_tokens) from a quote output.
SlippageGuard(out, bps) ==
    LET m == MulSlippage(out, bps)
    IN IF m <= 0 THEN Mul95(out) ELSE m

\* Base units m * 10^(d-6) as the pair [m, d]; m stays below 10^12 here.
Base(m, d) == [m |-> m, d |-> d]
NoBase == Base(0, 0)
GeqBaseStrict(a, b) == a.d = b.d /\ a.m > b.m
\* a >= b on base units.
GeqBase(a, b) ==
    IF a.d = b.d THEN a.m >= b.m
    ELSE IF a.d > b.d THEN (a.m > 0 \/ b.m = 0)
    ELSE b.m = 0

Has(msg, sig) == sig \in msg
Accepted == {"accepted"}

\* The two addresses of a path, and the paths the code builds.
WrappedNative == "wrappedNative"
Token == "token"
\* The path get_token_price_estimate and get_token_sell_estimate build for
\* getAmountsOut.
QuotePath(dir) ==
    IF dir = "Buy" THEN <<WrappedNative, Token>> ELSE <<Token, WrappedNative>>
\* The path buy_tokens and sell_tokens build once for every swap call.
SwapPathAlwaysBuy(dir) == <<WrappedNative, Token>>
SwapPath(dir) ==
    IF dir = "Buy" THEN <<WrappedNative, Token>> ELSE <<Token, WrappedNative>>

\* TradingManager's in-process state after __init__: for each of the three
\* dictionaries, the chains it has an entry for.
SupportedChains == {"BSC"}
Manager ==
    [web3_instances |-> SupportedChains, router_contracts |-> SupportedChains,
     trading_contracts |-> SupportedChains]

\* ----------------------------------------------------------------- state
VARIABLES
    tr,     \* per trade: the position in buy_tokens / sell_tokens and its locals
    log,    \* per trade: the RPC calls issued so far, in order
    chain,  \* the wallet's transaction counts and the token allowance
    env     \* what does not change during a run: token decimals, contract binding

vars == <<tr, log, chain, env>>

\* One RPC call of a trade: the operation, the amountIn and amountOutMin it
\* carries (swap calls), the nonce (sends and nonce reads), the contract it goes
\* to and, for quotes, allowance reads, simulations and sends, how it ended.
\* A gas price read carries in `min` the price the node suggested, in wei
\* (0: the read raised).
Ev(op, amt, min, nonce, to, res) ==
    [op |-> op, amt |-> amt, min |-> min, nonce |-> nonce, to |-> to, res |-> res]

SimOk == {"ok"}
ResName(msg) ==
    IF msg = Accepted THEN "accepted"
    ELSE IF msg = SimOk THEN "ok"
    ELSE IF Has(msg, SigNonceIssue) THEN "nonceIssue"
    ELSE IF Has(msg, SigNonce) THEN "nonceTooLow"
    ELSE IF Has(msg, SigPanic) THEN "panic"
    ELSE IF Has(msg, SigInsuf) THEN "insufficientOutput"
    ELSE IF Has(msg, SigK) THEN "k"
    ELSE "other"

\* The dict a trade returns: success, the error text (by its fixed prefix) with
\* the message of the exception it quotes, the suggested size of the shallow
\* liquidity error, and the gas_estimate a success reports.
\* A transaction hash stands for the transaction it was returned for, given
\* by the nonce and the minimum output it carries.
TxHash(nonce, min) == [nonce |-> nonce, min |-> min]
NoTx == TxHash(-1, -1)
NoResult ==
    [success |-> FALSE, error |-> "none", detail |-> {}, suggestedTenths |-> 0,
     gas |-> 0, tx |-> NoTx]
Failure(error, detail) ==
    [success |-> FALSE, error |-> error, detail |-> detail, suggestedTenths |-> 0,
     gas |-> 0, tx |-> NoTx]
Success(gas) ==
    [success |-> TRUE, error |-> "", detail |-> {}, suggestedTenths |-> 0, gas |-> gas,
     tx |-> NoTx]

\* suggested_amount = amount * 0.1, counted in tenths of the request's unit.
SuggestedTenthsDoubled(amount) == 2 * amount
SuggestedTenths(amount) == amount

NoPrice == [v |-> 0, unit |-> "wei"]

IdleTrade ==
    [pc |-> "idle", dir |-> "Buy", amount |-> 0, bps |-> 0, tokenValid |-> TRUE,
     amountIn |-> NoBase, quoteIn |-> NoBase, quoteOk |-> FALSE, out |-> 0,
     min |-> 0, variant |-> "none", routerBound |-> FALSE,
     gas |-> 0, simGas |-> 0, gasPrice |-> NoPrice, nonce |-> 0,
     attempt |-> 0, minRetry |-> 0, errType |-> "",
     aGasPrice |-> NoPrice, aNonce |-> 0,
     result |-> NoResult]

Requests ==
    [dir : Directions, amount : Amounts, bps : ToleranceBps, tokenValid : BOOLEAN]

Bindings == {"fee", "router", "none"}

Init ==
    /\ tr = [t \in Trades |-> IdleTrade]
    /\ log = [t \in Trades |-> <<>>]
    /\ \E c \in 0..1, a \in {0, MaxAmount}, d \in TokenDecimals :
          chain = [pending |-> c, confirmed |-> c,
                   allowance |-> Base(a, d), approving |-> NoBase,
                   approvePending |-> FALSE, external |-> 0]
          /\ \E b \in Bindings : env = [decimals |-> d, binding |-> b, manager |-> Manager]

Append1(t, e) == [log EXCEPT ![t] = Append(@, e)]
Finish(t, res) == [tr EXCEPT ![t].pc = "done", ![t].result = res]

\* execute(TradeRequest): the caller invokes buy_tokens or sell_tokens.
Start(t, reqs) ==
    /\ tr[t].pc = "idle"
    /\ \E r \in reqs :
          tr' = [tr EXCEPT ![t].pc = "getCode", ![t].dir = r.dir,
                           ![t].amount = r.amount, ![t].bps = r.bps,
                           ![t].tokenValid = r.tokenValid]
    /\ UNCHANGED <<log, chain, env>>

GetCodeDropsContract(t) ==
    /\ tr[t].pc = "getCode"
    /\ \E r \in {"code", "empty", "error"} :
          /\ log' = Append1(t, Ev("getCode", NoBase, 0, 0, "fee", r))
          /\ tr' = IF r = "empty"
                     THEN Finish(t, Failure("Trading contract not deployed or invalid", {}))
                   ELSE IF r = "error"
                     THEN Finish(t, Failure("Trading contract validation error", {}))
                   ELSE IF ~tr[t].tokenValid
                     THEN Finish(t, Failure("Invalid token address", {}))
                   ELSE IF tr[t].amount <= 0
                     THEN Finish(t, Failure("Invalid amount", {}))
                   ELSE [tr EXCEPT ![t].pc =
                            IF tr[t].dir = "Buy" THEN "quote" ELSE "decimals"]
    /\ env' = [env EXCEPT !.manager.trading_contracts = {}]
    /\ UNCHANGED chain

GetCodeWithoutValidation(t) ==
    /\ tr[t].pc = "getCode"
    /\ \E r \in {"code", "empty", "error"} :
          /\ log' = Append1(t, Ev("getCode", NoBase, 0, 0, "fee", r))
          /\ tr' = IF r = "empty"
                     THEN Finish(t, Failure("Trading contract not deployed or invalid", {}))
                   ELSE IF r = "error"
                     THEN Finish(t, Failure("Trading contract validation error", {}))
                   ELSE [tr EXCEPT ![t].pc =
                            IF tr[t].dir = "Buy" THEN "quote" ELSE "decimals"]
    /\ UNCHANGED <<chain, env>>

\* The get_code check of the trading contract and the input validation.
GetCode(t) ==
    /\ tr[t].pc = "getCode"
    /\ \E r \in {"code", "empty", "error"} :
          /\ log' = Append1(t, Ev("getCode", NoBase, 0, 0, "fee", r))
          /\ tr' = IF r = "empty"
                     THEN Finish(t, Failure("Trading contract not deployed or invalid", {}))
                   ELSE IF r = "error"
                     THEN Finish(t, Failure("Trading contract validation error", {}))
                   ELSE IF ~tr[t].tokenValid
                     THEN Finish(t, Failure("Invalid token address", {}))
                   ELSE IF tr[t].amount <= 0
                     THEN Finish(t, Failure("Invalid amount", {}))
                   ELSE [tr EXCEPT ![t].pc =
                            IF tr[t].dir = "Buy" THEN "quote" ELSE "decimals"]
    /\ UNCHANGED <<chain, env>>

\* sell_tokens: read decimals() and convert the token amount to base units.
SellDecimals(t) ==
    /\ tr[t].pc = "decimals"
    /\ \E r \in {"ok", "error"} :
          /\ log' = Append1(t, Ev("decimals", NoBase, 0, 0, "token", "called"))
          /\ tr' = [tr EXCEPT ![t].pc = "balance",
                      ![t].amountIn =
                          Base(tr[t].amount,
                               IF r = "ok" THEN env.decimals ELSE FallbackDecimals)]
    /\ UNCHANGED <<chain, env>>

\* The wallet holds bal whole tokens less dust base units (dust <= 1 here).
\* Whether that is less than the requested amount of whole tokens.
HoldsLess(bal, dust, amount) == bal < amount \/ (bal = amount /\ dust > 0)

\* _get_token_balance: balanceOf and decimals; 0.0 when balanceOf fails.  The
\* result is the float balance_wei / 10 ** decimals, given here by its floor
\* (it is compared with a whole amount).  With 18 decimals the quotient of
\* bal * 10^18 - 1 rounds to the double bal itself; with 6 decimals it stays
\* below bal; a balance of a 6-decimals token scaled by the fallback of 18
\* decimals is below one token.
TokenBalance(rb, rd, bal, dust) ==
    IF rb = "error" THEN 0
    ELSE IF env.decimals = FallbackDecimals THEN bal
    ELSE IF rd = "ok" THEN bal - dust
    ELSE 0

\* sell_tokens: the balance check.  The event records what the wallet really
\* holds against the request, and whether balanceOf could be read.
GetTokenBalance(t) ==
    /\ tr[t].pc = "balance"
    /\ \E rb \in {"ok", "error"}, rd \in {"ok", "error"},
          bal \in 0..MaxAmount, dust \in 0..1 :
          /\ dust <= bal
          /\ log' = Append1(t, Ev("balanceOf", NoBase, 0, 0, "token",
                                  IF HoldsLess(bal, dust, tr[t].amount)
                                    THEN "less" ELSE "enough")
                                  @@ [read |-> rb])
          /\ tr' = IF TokenBalance(rb, rd, bal, dust) < tr[t].amount
                     THEN Finish(t, Failure("Insufficient token balance", {}))
                     ELSE [tr EXCEPT ![t].pc = "allowance"]
    /\ UNCHANGED <<chain, env>>

\* ------------------------------------------------------------- the chain
\* What the node answers to send_raw_transaction of a transaction with nonce n:
\* "nonce too low" below the confirmed count, a replacement refusal (no known
\* signature) for a nonce a pending transaction holds, otherwise it takes the
\* transaction or answers with one of errs.
SendOutcomes(n, errs) ==
    IF n < chain.confirmed THEN {{SigNonce}}
    ELSE IF n < chain.pending THEN {{}}
    ELSE {Accepted} \cup errs

\* The chain after it took a transaction with nonce n.
Took(n) == [chain EXCEPT !.pending = IF n = @ THEN @ + 1 ELSE @]

\* A block confirms what is pending; a pending approve takes effect.
Mine ==
    /\ chain.confirmed < chain.pending
    /\ \E t \in Trades : tr[t].pc \notin {"idle", "done"}
    /\ chain' = [chain EXCEPT !.confirmed = chain.pending,
                              !.allowance = IF chain.approvePending
                                              THEN chain.approving ELSE @,
                              !.approvePending = FALSE]
    /\ UNCHANGED <<tr, log, env>>

\* Another user of the same wallet key submits a transaction while a trade
\* holds a nonce it has read (earlier ones only change the count a trade reads).
ExternalTx ==
    /\ chain.external < MaxExternal
    /\ \E t \in Trades : tr[t].pc \in {"approveSend", "send", "resend"}
    /\ chain' = [chain EXCEPT !.pending = @ + 1, !.external = @ + 1]
    /\ UNCHANGED <<tr, log, env>>

ResolveNonceConfirmedFirst(r) ==
    IF r = "none" THEN 0 ELSE chain.confirmed
\* get_transaction_count(addr, 'pending'), else the confirmed count, else 0.
ResolveNonce(r) ==
    IF r = "pending" THEN chain.pending
    ELSE IF r = "confirmed" THEN chain.confirmed
    ELSE 0
NonceReads == {"pending", "confirmed", "none"}
\* The nonce resolution of the swap submitter as a call of the log: which read
\* answered, the nonce it gave and the wallet's two counts at that time.
NonceEv(r) ==
    Ev("nonceRead", NoBase, 0, ResolveNonce(r), "node", r)
        @@ [pending |-> chain.pending, confirmed |-> chain.confirmed]

\* ------------------------------------------------------ the approval gate
\* Where sell_tokens goes on when the gate returned success: the path, the
\* deadline and then the sell estimate.
AfterApprovalSkipsQuote == "sim0"
AfterApproval == "quote"

\* _ensure_token_approval_for_contract: the allowance read.
AllowanceRead(t) ==
    /\ tr[t].pc = "allowance"
    /\ \E r \in {"ok", "error"} :
          /\ log' = Append1(t, Ev("allowance", tr[t].amountIn, 0, 0, "fee", r)
                                  @@ [allowance |-> chain.allowance])
          /\ tr' = IF r = "error"
                     THEN Finish(t, Failure("Approval failed", {}))
                   ELSE IF GeqBase(chain.allowance, tr[t].amountIn)
                     THEN [tr EXCEPT ![t].pc = AfterApproval]
                   ELSE [tr EXCEPT ![t].pc = "approveGas"]
    /\ UNCHANGED <<chain, env>>

\* The gate's gas estimate (default 50000) and gas price (default 5 gwei).
ApproveGas(t) ==
    /\ tr[t].pc = "approveGas"
    /\ \E p \in SuggestedGasPrices \cup {0} :
          /\ tr' = [tr EXCEPT ![t].pc = "approveNonce",
                      ![t].aGasPrice =
                          IF p = 0 THEN [v |-> ApproveDefaultGasPriceGwei, unit |-> "gwei"]
                          ELSE [v |-> p, unit |-> "wei"]]
          /\ log' = Append1(t, Ev("gasPrice", NoBase, p, 0, "node", "called"))
    /\ UNCHANGED <<chain, env>>

\* The gate's nonce, then build_transaction and signing of the approve; a
\* failure of those is caught by the gate's handler as any other exception.
ApproveNonce(t) ==
    /\ tr[t].pc = "approveNonce"
    /\ \E r \in NonceReads, b \in {"ok", "error"} :
          /\ tr' = IF b = "ok"
                     THEN [tr EXCEPT ![t].pc = "approveSend",
                                     ![t].aNonce = ResolveNonce(r)]
                     ELSE [tr EXCEPT ![t].pc = "done", ![t].aGasPrice = NoPrice,
                                     ![t].result = Failure("Approval failed", {})]
          /\ log' = Append1(t, Ev("nonceRead", NoBase, 0, ResolveNonce(r), "node", "called"))
    /\ UNCHANGED <<chain, env>>

GateRetriesOnNonce(msg) == Has(msg, SigNonce)
\* Whether the gate sends the approve again after the rejection msg: its one
\* send_raw_transaction is not in a loop.
GateRetries(msg) == FALSE

\* The gate builds, signs and sends approve(spender, amount): one send, and
\* any exception is returned as 'Approval failed', which sell_tokens returns.
ApproveSend(t) ==
    /\ tr[t].pc = "approveSend"
    /\ \E o \in SendOutcomes(tr[t].aNonce, {{}}) :
          /\ log' = Append1(t, Ev("approveSend", tr[t].amountIn, 0, tr[t].aNonce,
                                  "fee", ResName(o)))
          /\ IF o = Accepted
               THEN /\ chain' = [Took(tr[t].aNonce) EXCEPT
                                    !.approving = tr[t].amountIn,
                                    !.approvePending = TRUE]
                    /\ tr' = [tr EXCEPT ![t].pc = AfterApproval,
                                         ![t].aGasPrice = NoPrice, ![t].aNonce = 0]
               ELSE /\ chain' = chain
                    /\ tr' = IF GateRetries(o) THEN tr
                             ELSE [tr EXCEPT ![t].pc = "done",
                                         ![t].aGasPrice = NoPrice, ![t].aNonce = 0,
                                         ![t].result = Failure("Approval failed", o)]
    /\ UNCHANGED env

\* ---------------------------------------------------------------- quoting
\* What getAmountsOut answers: a revert, fewer than two amounts, or the amounts.
QuoteAnswers(outs) ==
    {[kind |-> k, out |-> 0] : k \in {"revert", "short"}}
        \cup {[kind |-> "ok", out |-> o] : o \in outs}

\* The swap call is bound to the trading contract first and to the router when
\* that binding raises; binding is decided by the ABIs and argument types.
BindSwap(tt) ==
    IF env.binding = "none"
      THEN [tt EXCEPT !.pc = "done",
                      !.result = Failure("Unexpected error", {})]
      ELSE [tt EXCEPT !.pc = "sim0", !.variant = env.binding,
                      !.routerBound = (env.binding = "router")]

\* What the quote engine returns: no estimate, or the input and output base
\* units and the path; fabricated when the router did not produce the output.
NoQuote ==
    [ok |-> FALSE, in |-> NoBase, out |-> 0, path |-> <<>>, fabricated |-> FALSE]
\* _get_fallback_price_estimate: 1 native unit is taken to buy 1000 tokens
\* (out counts whole tokens here); the router is not asked.
FallbackPriceEstimate(amount) ==
    [ok |-> TRUE, in |-> Base(amount, FallbackDecimals), out |-> 1000 * amount,
     path |-> <<"WBNB", "token...">>, fabricated |-> TRUE]
\* get_token_price_estimate: to_checksum_address raises for an invalid token
\* address before the router is called, and the outer handler answers with the
\* fallback estimate.  Otherwise the native amount at 18 decimals is quoted,
\* getAmountsOut answering a; an answer other than two amounts gives no
\* estimate.
PriceEstimateWithImpact(valid, amount, a) ==
    IF ~valid THEN FallbackPriceEstimate(amount)
    ELSE IF a.kind = "ok"
      THEN [ok |-> TRUE, in |-> Base(amount, FallbackDecimals),
            out |-> a.out + Len(log["t1"]) + Len(log["t2"]),
            path |-> QuotePath("Buy"), fabricated |-> FALSE]
      ELSE NoQuote
PriceEstimate(valid, amount, a) ==
    IF ~valid THEN FallbackPriceEstimate(amount)
    ELSE IF a.kind = "ok"
      THEN [ok |-> TRUE, in |-> Base(amount, FallbackDecimals), out |-> a.out,
            path |-> QuotePath("Buy"), fabricated |-> FALSE]
      ELSE NoQuote
\* get_token_sell_estimate: any exception gives no estimate; otherwise the
\* token amount at the decimals its own read rd returned (18 when the read
\* failed), getAmountsOut answering a.
SellEstimate(valid, amount, a, rd) ==
    IF valid /\ a.kind = "ok"
      THEN [ok |-> TRUE,
            in |-> Base(amount, IF rd = "ok" THEN env.decimals ELSE FallbackDecimals),
            out |-> a.out, path |-> QuotePath("Sell"), fabricated |-> FALSE]
      ELSE NoQuote

\* buy_tokens: get_token_price_estimate, the slippage guard, the swap call.
QuoteBuy(t, outs) ==
    /\ tr[t].pc = "quote"
    /\ tr[t].dir = "Buy"
    /\ \E a \in QuoteAnswers(outs) :
          LET q == PriceEstimate(tr[t].tokenValid, tr[t].amount, a)
          IN /\ log' = Append1(t, Ev("quote", Base(tr[t].amount, FallbackDecimals),
                                     0, 0, "router", a.kind)
                                  @@ [path |-> QuotePath(tr[t].dir)])
             /\ tr' = IF ~q.ok
                        THEN Finish(t, Failure("Could not get price estimate", {}))
                        ELSE [tr EXCEPT ![t] =
                                BindSwap([@ EXCEPT
                                    !.amountIn = Base(tr[t].amount, FallbackDecimals),
                                    !.quoteIn = q.in,
                                    !.quoteOk = TRUE, !.out = q.out,
                                    !.min = SlippageGuard(q.out, tr[t].bps)])]
    /\ UNCHANGED <<chain, env>>

\* sell_tokens: get_token_sell_estimate (its own decimals read), the slippage
\* guard or 0 without an estimate, the swap call.
QuoteSell(t, outs) ==
    /\ tr[t].pc = "quote"
    /\ tr[t].dir = "Sell"
    /\ \E a \in QuoteAnswers(outs), rd \in {"ok", "error"} :
          LET q == SellEstimate(tr[t].tokenValid, tr[t].amount, a, rd)
              qin == Base(tr[t].amount,
                          IF rd = "ok" THEN env.decimals ELSE FallbackDecimals)
          IN /\ log' = Append1(t, Ev("quote", qin, 0, 0, "router", a.kind)
                                  @@ [path |-> QuotePath(tr[t].dir)])
             /\ tr' = [tr EXCEPT ![t] =
                         BindSwap(IF q.ok
                                    THEN [@ EXCEPT !.quoteIn = q.in, !.quoteOk = TRUE,
                                                   !.out = q.out,
                                                   !.min = SlippageGuard(q.out, tr[t].bps)]
                                    ELSE [@ EXCEPT !.quoteIn = qin, !.quoteOk = FALSE,
                                                   !.min = 0])]
    /\ UNCHANGED <<chain, env>>

\* ------------------------------------------------ gas estimation cascade
\* The contract a rebuilt swap call is bound to: the trading contract, else the
\* local `router`, which is assigned only when the first binding fell back.
RebindFeeFirstAgain(tt) == "fee"
Rebind(tt) ==
    IF env.binding = "fee" THEN "fee"
    ELSE IF tt.routerBound THEN "router"
    ELSE "unbound"

ErrInvalidAmounts == "Invalid token amounts or slippage causing arithmetic error"
ErrInsufficientOutput == "Insufficient output amount"
ErrShallow == "Severe pool liquidity issue (UniswapV2: K)"

\* The class of a failed first estimate, by the order of the substring tests.
SimClassPanicRetried(msg) ==
    IF Has(msg, SigInsuf) THEN "insufficientOutput"
    ELSE IF Has(msg, SigK) \/ Has(msg, SigPanic) THEN "k"
    ELSE "other"
SimClassUnknownRetried(msg) ==
    IF Has(msg, SigPanic) THEN "panic"
    ELSE IF Has(msg, SigInsuf) THEN "insufficientOutput"
    ELSE "k"
SimClassInsufIgnored(msg) ==
    IF Has(msg, SigPanic) THEN "panic"
    ELSE IF Has(msg, SigK) THEN "k"
    ELSE "other"
SimClass(msg) ==
    IF Has(msg, SigPanic) THEN "panic"
    ELSE IF Has(msg, SigInsuf) THEN "insufficientOutput"
    ELSE IF Has(msg, SigK) THEN "k"
    ELSE "other"

\* The first estimate_gas and what follows its failure.
Sim0(t) ==
    /\ tr[t].pc = "sim0"
    /\ \E o \in SimErrors \cup {SimOk}, g \in GasEstimates :
          /\ log' = Append1(t, Ev("simulate", tr[t].amountIn, tr[t].min, 0,
                                  tr[t].variant, ResName(o))
                                  @@ [path |-> SwapPath(tr[t].dir)])
          /\ tr' = IF o = SimOk
                     THEN [tr EXCEPT ![t].pc = "gasPrice", ![t].gas = g, ![t].simGas = g]
                   ELSE IF SimClass(o) = "panic"
                     THEN Finish(t, Failure(ErrInvalidAmounts, o))
                   ELSE IF SimClass(o) = "insufficientOutput"
                     THEN Finish(t, Failure(ErrInsufficientOutput, o))
                   ELSE IF SimClass(o) = "k"
                     THEN [tr EXCEPT ![t].pc = "sim1"]
                   ELSE [tr EXCEPT ![t].pc = "gasPrice", ![t].gas = DefaultGas]
    /\ UNCHANGED <<chain, env>>

\* The minimum output of the first relaxed estimate.
RetryMin1(min) == Mul70(min)
\* The minimum output of the second relaxed estimate.
RetryMin2(min) == Mul50(min)

\* The gas estimate the cascade leaves after a relaxed estimate returned g:
\* the assignment gas_estimate = 300000 closes the except block of the first
\* estimate, after the if/elif chain.
GasAfterRetry(g) == DefaultGas

\* The estimate with the minimum output relaxed to 70%; any failure leads on.
Sim1(t) ==
    /\ tr[t].pc = "sim1"
    /\ IF Rebind(tr[t]) = "unbound"
         THEN /\ tr' = [tr EXCEPT ![t].pc = "sim2"]
              /\ log' = log
         ELSE \E o \in SimErrors \cup {SimOk}, g \in GasEstimates :
                /\ log' = Append1(t, Ev("simulate", tr[t].amountIn,
                                        RetryMin1(tr[t].min), 0,
                                        Rebind(tr[t]), ResName(o))
                                  @@ [path |-> SwapPath(tr[t].dir)])
                /\ tr' = IF o = SimOk
                           THEN [tr EXCEPT ![t].pc = "gasPrice", ![t].simGas = g,
                                           ![t].gas = GasAfterRetry(g)]
                           ELSE [tr EXCEPT ![t].pc = "sim2"]
    /\ UNCHANGED <<chain, env>>

\* The estimate with the minimum output relaxed to 50%; any failure ends the
\* trade with the suggested size.
Sim2(t) ==
    /\ tr[t].pc = "sim2"
    /\ LET shallow == [Failure(ErrShallow, {}) EXCEPT
                          !.suggestedTenths = SuggestedTenths(tr[t].amount)]
       IN IF Rebind(tr[t]) = "unbound"
            THEN /\ tr' = Finish(t, shallow)
                 /\ log' = log
            ELSE \E o \in SimErrors \cup {SimOk}, g \in GasEstimates :
                   /\ log' = Append1(t, Ev("simulate", tr[t].amountIn,
                                           RetryMin2(tr[t].min), 0,
                                           Rebind(tr[t]), ResName(o))
                                  @@ [path |-> SwapPath(tr[t].dir)])
                   /\ tr' = IF o = SimOk
                              THEN [tr EXCEPT ![t].pc = "gasPrice", ![t].simGas = g,
                                              ![t].gas = GasAfterRetry(g)]
                              ELSE Finish(t, shallow)
    /\ UNCHANGED <<chain, env>>

\* ------------------------------------------------------------- submission
\* gas_price = int(current_gas_price * 1.5), or the default of 10 gwei.
UnboostedGasPrice(p) == [v |-> p, unit |-> "wei"]
BoostedGasPrice(p) == [v |-> Mul150(p), unit |-> "wei"]

GasPrice(t) ==
    /\ tr[t].pc = "gasPrice"
    /\ \E p \in SuggestedGasPrices \cup {0} :
          /\ tr' = [tr EXCEPT ![t].pc = "nonce",
                      ![t].gasPrice = IF p = 0
                                        THEN [v |-> DefaultGasPriceGwei, unit |-> "gwei"]
                                        ELSE BoostedGasPrice(p)]
          /\ log' = Append1(t, Ev("gasPrice", NoBase, p, 0, "node", "called"))
    /\ UNCHANGED <<chain, env>>

\* The nonce of the swap transaction, then build_transaction and signing.  A
\* build failure is returned by buy_tokens as such and escapes to the outer
\* handler of sell_tokens.
NonceAndBuild(t) ==
    /\ tr[t].pc = "nonce"
    /\ \E r \in NonceReads, b \in {"ok", "error"} :
          /\ log' = Append1(t, NonceEv(r))
          /\ tr' = IF b = "ok"
                     THEN [tr EXCEPT ![t].pc = "send", ![t].nonce = ResolveNonce(r),
                                     ![t].attempt = 0]
                     ELSE [tr EXCEPT ![t].pc = "done", ![t].nonce = ResolveNonce(r),
                              ![t].result =
                                  IF tr[t].dir = "Buy"
                                    THEN Failure("Transaction build error", {})
                                    ELSE Failure("Unexpected error", {})]
    /\ UNCHANGED <<chain, env>>

ResendMinAsSimulated(min, msg) == IF Has(msg, SigK) THEN Mul70(min) ELSE Mul50(min)
\* The minimum output of the transaction rebuilt after a rejected send.
ResendMin(min, msg) == IF Has(msg, SigK) THEN Mul80(min) ELSE Mul85(min)

\* Whether buy_tokens / sell_tokens rebuild and resubmit after the exception msg.
Resubmits(msg) == Has(msg, SigInsuf) \/ Has(msg, SigK)

ToResend(tt, msg) ==
    [tt EXCEPT !.pc = "resend", !.attempt = 0,
               !.minRetry = ResendMin(tt.min, msg),
               !.errType = IF tt.dir = "Buy"
                             THEN (IF Has(msg, SigInsuf) THEN SigInsuf ELSE SigK)
                             ELSE (IF Has(msg, SigK) THEN SigK ELSE SigInsuf)]

SendsAgainInBuyToo(dir, msg, attempt) ==
    Has(msg, SigNonce) /\ attempt < MaxRetries - 1
SendsAgainForever(dir, msg, attempt) == dir = "Sell" /\ Has(msg, SigNonce)
SendsAgainOnAnyError(dir, msg, attempt) ==
    dir = "Sell" /\ attempt < MaxRetries - 1
\* Whether the sender of a trade sends the same signed transaction again after
\* the rejection msg of attempt number `attempt` (from 0):
\* _send_transaction_with_retry for sell_tokens, a plain send for buy_tokens.
SendsAgain(dir, msg, attempt) ==
    dir = "Sell" /\ Has(msg, SigNonce) /\ attempt < MaxRetries - 1

\* The exception the sender raises for the rejection msg.
Raised(dir, msg) ==
    IF dir = "Sell" /\ Has(msg, SigNonce) THEN msg \cup {SigNonceIssue} ELSE msg

SendFailsAfterAccept(t) ==
    /\ tr[t].pc = "send"
    /\ \E o \in SendOutcomes(tr[t].nonce, SendErrors) :
          /\ log' = Append1(t, Ev("send", tr[t].amountIn, tr[t].min, tr[t].nonce,
                                  tr[t].variant, ResName(o))
                                  @@ [path |-> SwapPath(tr[t].dir)])
          /\ IF o = Accepted
               THEN /\ chain' = Took(tr[t].nonce)
                    /\ tr' = Finish(t, Failure("Sell transaction error", {}))
               ELSE /\ chain' = chain
                    /\ tr' = IF SendsAgain(tr[t].dir, o, tr[t].attempt)
                               THEN [tr EXCEPT ![t].attempt = @ + 1]
                             ELSE IF Resubmits(Raised(tr[t].dir, o))
                               THEN [tr EXCEPT ![t] = ToResend(@, Raised(tr[t].dir, o))]
                             ELSE Finish(t, Failure(
                                     IF tr[t].dir = "Buy" THEN "Transaction send error"
                                     ELSE "Sell transaction error",
                                     Raised(tr[t].dir, o)))
    /\ UNCHANGED env

\* One send_raw_transaction of the first swap transaction and what follows it.
Send(t) ==
    /\ tr[t].pc = "send"
    /\ \E o \in SendOutcomes(tr[t].nonce, SendErrors) :
          /\ log' = Append1(t, Ev("send", tr[t].amountIn, tr[t].min, tr[t].nonce,
                                  tr[t].variant, ResName(o))
                                  @@ [path |-> SwapPath(tr[t].dir)])
          /\ IF o = Accepted
               THEN /\ chain' = Took(tr[t].nonce)
                    /\ tr' = Finish(t, [Success(tr[t].gas) EXCEPT
                                           !.tx = TxHash(tr[t].nonce, tr[t].min)])
               ELSE /\ chain' = chain
                    /\ tr' = IF SendsAgain(tr[t].dir, o, tr[t].attempt)
                               THEN [tr EXCEPT ![t].attempt = @ + 1]
                             ELSE IF Resubmits(Raised(tr[t].dir, o))
                               THEN [tr EXCEPT ![t] = ToResend(@, Raised(tr[t].dir, o))]
                             ELSE Finish(t, Failure(
                                     IF tr[t].dir = "Buy" THEN "Transaction send error"
                                     ELSE "Sell transaction error",
                                     Raised(tr[t].dir, o)))
    /\ UNCHANGED env

\* The rebuilt transaction cannot be built or signed: 'retry failed', no send.
ResendBuildFails(t) ==
    /\ tr[t].pc = "resend"
    /\ tr[t].attempt = 0
    /\ tr' = Finish(t, Failure("retry failed", {}))
    /\ UNCHANGED <<log, chain, env>>

\* One send_raw_transaction of the rebuilt transaction (same nonce and gas
\* price, the relaxed minimum output) and what follows it.
Resend(t) ==
    /\ tr[t].pc = "resend"
    /\ \E o \in SendOutcomes(tr[t].nonce, SendErrors) :
          /\ log' = Append1(t, Ev("send", tr[t].amountIn, tr[t].minRetry,
                                  tr[t].nonce, Rebind(tr[t]), ResName(o))
                                  @@ [path |-> SwapPath(tr[t].dir)])
          /\ IF o = Accepted
               THEN /\ chain' = Took(tr[t].nonce)
                    /\ tr' = Finish(t, [Success(tr[t].gas) EXCEPT
                                           !.tx = TxHash(tr[t].nonce, tr[t].minRetry)])
               ELSE /\ chain' = chain
                    /\ tr' = IF SendsAgain(tr[t].dir, o, tr[t].attempt)
                               THEN [tr EXCEPT ![t].attempt = @ + 1]
                               ELSE Finish(t, Failure("retry failed",
                                                      Raised(tr[t].dir, o)))
    /\ UNCHANGED env

\* --------------------------------------------------------- specifications
Step(t, outs) ==
    \/ GetCode(t)
    \/ SellDecimals(t)
    \/ GetTokenBalance(t)
    \/ AllowanceRead(t)
    \/ ApproveGas(t)
    \/ ApproveNonce(t)
    \/ ApproveSend(t)
    \/ QuoteBuy(t, outs)
    \/ QuoteSell(t, outs)
    \/ Sim0(t)
    \/ Sim1(t)
    \/ Sim2(t)
    \/ GasPrice(t)
    \/ NonceAndBuild(t)
    \/ Send(t)
    \/ ResendBuildFails(t)
    \/ Resend(t)

\* One trade at a time, every request and every pool answer.
Next ==
    \/ Start("t1", Requests)
    \/ Step("t1", QuoteOutputs)
    \/ Mine
    \/ ExternalTx

Spec == Init /\ [][Next]_vars

\* Two concurrent buys of the same wallet: the default request, one pool answer.
RaceRequests == {[dir |-> "Buy", amount |-> 1, bps |-> 50, tokenValid |-> TRUE]}
RaceOutputs == {1000}

InitRace ==
    /\ tr = [t \in Trades |-> IdleTrade]
    /\ log = [t \in Trades |-> <<>>]
    /\ chain = [pending |-> 1, confirmed |-> 1,
                allowance |-> Base(0, FallbackDecimals), approving |-> NoBase,
                approvePending |-> FALSE, external |-> 0]
    /\ env = [decimals |-> FallbackDecimals, binding |-> "fee",
              manager |-> Manager]

NextRace ==
    \/ \E t \in Trades :
          \/ Start(t, RaceRequests)
          \/ GetCode(t)
          \/ QuoteBuy(t, RaceOutputs)
          \/ Sim0(t)
          \/ Sim1(t)
          \/ Sim2(t)
          \/ GasPrice(t)
          \/ NonceAndBuild(t)
          \/ Send(t)
          \/ ResendBuildFails(t)
          \/ Resend(t)
    \/ Mine

SpecRace == InitRace /\ [][NextRace]_vars

\* The quote engine on its own: the pool's answer and the outcome of the
\* decimals() read are fixed for the run, and each caller asks for one quote.
QuoteRequests == {r \in Requests : r.amount > 0 /\ r.bps = 50}

InitQuote ==
    /\ tr = [t \in Trades |-> IdleTrade]
    /\ log = [t \in Trades |-> <<>>]
    /\ \E c \in 0..1, a \in {0, MaxAmount} :
          chain = [pending |-> c, confirmed |-> c,
                   allowance |-> Base(a, FallbackDecimals), approving |-> NoBase,
                   approvePending |-> FALSE, external |-> 0]
    /\ \E d \in TokenDecimals, b \in Bindings, a \in QuoteAnswers(QuoteOutputs),
          rd \in {"ok", "error"} :
          env = [decimals |-> d, binding |-> b, manager |-> Manager,
                 pool |-> a, decimalsRead |-> rd]

\* One call of get_token_price_estimate or get_token_sell_estimate; the router
\* is called only when the token address passed to_checksum_address.
QuoteEngineCall(t) ==
    /\ tr[t].pc = "idle"
    /\ \E r \in QuoteRequests :
          LET q == IF r.dir = "Buy"
                     THEN PriceEstimate(r.tokenValid, r.amount, env.pool)
                     ELSE SellEstimate(r.tokenValid, r.amount, env.pool,
                                       env.decimalsRead)
              qin == IF r.dir = "Buy" THEN Base(r.amount, FallbackDecimals)
                     ELSE Base(r.amount, IF env.decimalsRead = "ok"
                                           THEN env.decimals ELSE FallbackDecimals)
          IN /\ tr' = [tr EXCEPT ![t].pc = "quoted", ![t].dir = r.dir,
                                 ![t].amount = r.amount, ![t].bps = r.bps,
                                 ![t].tokenValid = r.tokenValid,
                                 ![t].quoteOk = q.ok, ![t].quoteIn = q.in,
                                 ![t].out = q.out]
             /\ log' = IF r.tokenValid
                         THEN Append1(t, Ev("quote", qin, 0, 0, "router", env.pool.kind)
                                         @@ [path |-> QuotePath(r.dir)])
                         ELSE log
    /\ UNCHANGED <<chain, env>>

NextQuote == \E t \in Trades : QuoteEngineCall(t)

SpecQuote == InitQuote /\ [][NextQuote]_vars

\* The slippage guard on its own: one quote output and a tolerance per caller,
\* and the minimum output computed from them.
GuardOutputs == 0..MaxGuardOut
GuardBps == {0, 50, 3000, 8000, 9000, 10000, 12000}

InitGuard ==
    /\ \E o \in GuardOutputs, b1 \in GuardBps, b2 \in GuardBps :
          tr = [t \in Trades |->
                  [IdleTrade EXCEPT !.pc = "guard", !.quoteOk = TRUE, !.out = o,
                                    !.bps = IF t = "t1" THEN b1 ELSE b2]]
    /\ log = [t \in Trades |-> <<>>]
    /\ chain = [pending |-> 0, confirmed |-> 0,
                allowance |-> NoBase, approving |-> NoBase,
                approvePending |-> FALSE, external |-> 0]
    /\ env = [decimals |-> FallbackDecimals, binding |-> "fee",
              manager |-> Manager]

\* min_tokens / min_native from the estimate's output and the slippage.
ApplyGuard(t) ==
    /\ tr[t].pc = "guard"
    /\ tr' = [tr EXCEPT ![t].pc = "guarded",
                        ![t].min = SlippageGuard(tr[t].out, tr[t].bps)]
    /\ UNCHANGED <<log, chain, env>>

NextGuard == \E t \in Trades : ApplyGuard(t)

SpecGuard == InitGuard /\ [][NextGuard]_vars

\* ------------------------------------------------------------ properties
IsDone(t) == tr[t].pc = "done"
Failed(t) == IsDone(t) /\ ~tr[t].result.success
\* The positions of a trade's log that hold one of the operations ops.
Positions(t, ops) == {i \in 1..Len(log[t]) : log[t][i].op \in ops}
Sel(t, ops) == SelectSeq(log[t], LAMBDA e : e.op \in ops)
\* The gas simulations and the swap sends of a trade, in order.
Sims(t) == Sel(t, {"simulate"})
SwapSends(t) == Sel(t, {"send"})
MinOf(S) == CHOOSE i \in S : \A j \in S : i <= j
MaxOf(S) == CHOOSE i \in S : \A j \in S : i >= j

\* C1: for a quote output of at least 1 base unit and a tolerance in
\* [0, 10000) bps, the minimum output of the swap call built from the quote
\* (the one the first simulation carries) is positive and at most the output.
C1_MinOutputWithinQuote ==
    \A t \in Trades :
        (/\ Len(Sims(t)) >= 1
         /\ tr[t].quoteOk
         /\ tr[t].out >= 1
         /\ tr[t].bps >= 0
         /\ tr[t].bps < 10000)
        => (0 < Sims(t)[1].min /\ Sims(t)[1].min <= tr[t].out)

\* C2: after a pool-invariant revert of the first simulation, the second
\* simulation carries exactly 70% of the quote output (int(output * 0.70)),
\* and a third simulation is made only after the second.
C2_State1UsesSeventyPercentOfQuote ==
    \A t \in Trades :
        (Len(Sims(t)) >= 2 /\ tr[t].quoteOk)
        => /\ Sims(t)[1].res = "k"
           /\ Sims(t)[2].min = (IF tr[t].out \in RoundsBelow70
                                  THEN (tr[t].out * 7) \div 10 - 1
                                  ELSE (tr[t].out * 7) \div 10)
           /\ Len(Sims(t)) >= 3 => Sims(t)[3].min <= Sims(t)[2].min

\* C3: an arithmetic-panic revert of the first simulation ends the trade in
\* failure after that one simulation: no further simulation, no swap send.
C3_PanicTerminatesAtState0 ==
    \A t \in Trades :
        (Len(Sims(t)) >= 1 /\ Sims(t)[1].res = "panic")
        => /\ Failed(t)
           /\ tr[t].result.error = ErrInvalidAmounts
           /\ Len(Sims(t)) = 1
           /\ SwapSends(t) = <<>>
C3_Witness ==
    \E t \in Trades : Len(Sims(t)) >= 1 /\ Sims(t)[1].res = "panic" /\ IsDone(t)

\* C4: an insufficient-output revert of the first simulation ends the trade
\* in failure after that one simulation: no relaxed simulation, no swap send.
C4_InsufficientOutputTerminatesAtState0 ==
    \A t \in Trades :
        (Len(Sims(t)) >= 1 /\ Sims(t)[1].res = "insufficientOutput")
        => /\ Failed(t)
           /\ tr[t].result.error = ErrInsufficientOutput
           /\ Len(Sims(t)) = 1
           /\ SwapSends(t) = <<>>
C4_Witness ==
    \E t \in Trades :
        Len(Sims(t)) >= 1 /\ Sims(t)[1].res = "insufficientOutput" /\ IsDone(t)

\* C5: pool-invariant reverts of the first, the second and the third
\* simulation end the trade with the shallow-liquidity failure whose suggested
\* size is 10% of the requested amount, after exactly three simulations and
\* without any swap send.
C5_ShallowLiquidityAfterThreeReverts ==
    \A t \in Trades :
        (Len(Sims(t)) >= 3 /\ \A i \in 1..3 : Sims(t)[i].res = "k")
        => /\ Failed(t)
           /\ tr[t].result.error = ErrShallow
           /\ tr[t].result.suggestedTenths = tr[t].amount
           /\ Len(Sims(t)) = 3
           /\ SwapSends(t) = <<>>
\* The scenario as written: the relaxed simulations carry 70% and 50% of the
\* quote output (a tolerance of 0, where the guard minimum is the output).
C5_Witness ==
    \E t \in Trades :
        /\ Len(Sims(t)) = 3
        /\ \A i \in 1..3 : Sims(t)[i].res = "k"
        /\ tr[t].amount > 0
        /\ tr[t].out > 1
        /\ Sims(t)[2].min = (tr[t].out * 7) \div 10
        /\ Sims(t)[3].min = tr[t].out \div 2
        /\ IsDone(t)

\* C6: after a "nonce too low" rejection of a swap send the submitter reads
\* the nonce again and the next send carries it, it sends at most 3 times, and
\* a trade whose last send was rejected so has sent 3 times and ends in the
\* nonce-conflict failure.
C6_NonceRetryRereadsNonce ==
    \A t \in Trades :
        LET P == Positions(t, {"send"})
            R == Positions(t, {"nonceRead"})
        IN /\ \A i \in P, j \in P :
                 (/\ i < j
                  /\ log[t][i].res = "nonceTooLow"
                  /\ \A k \in P : ~(i < k /\ k < j))
                 => \E r \in R : i < r /\ r < j /\ log[t][j].nonce = log[t][r].nonce
           /\ (IsDone(t) /\ P # {} /\ log[t][MaxOf(P)].res = "nonceTooLow")
                 => /\ Cardinality(P) = MaxRetries
                    /\ Failed(t)
                    /\ Has(tr[t].result.detail, SigNonceIssue)

\* C7: of two concurrent buys that resolved the same nonce, the one whose
\* send is rejected with "nonce too low" reads the nonce again, resubmits and
\* ends with success within 3 sends.
C7_RacingBuyResubmits ==
    \A t \in Trades, u \in Trades :
        (/\ t # u
         /\ IsDone(t)
         /\ tr[t].dir = "Buy"
         /\ tr[u].dir = "Buy"
         /\ SwapSends(t) # <<>>
         /\ SwapSends(t)[1].res = "nonceTooLow"
         /\ \E i \in 1..Len(SwapSends(u)) :
               /\ SwapSends(u)[i].res = "accepted"
               /\ SwapSends(u)[i].nonce = SwapSends(t)[1].nonce)
        => tr[t].result.success /\ Len(SwapSends(t)) <= MaxRetries

\* C8 (as stated): after a pool-invariant or insufficient-output rejection of
\* the first send the swap is rebuilt with 80% / 85% of the minimum output and
\* sent once; whatever the outcome of that send, no further send is made, and
\* a rejected resubmission ends the trade in failure.
C8_ResubmitsExactlyOnce ==
    \A t \in Trades :
        LET S == SwapSends(t)
        IN (S # <<>> /\ S[1].res \in {"k", "insufficientOutput"})
           => /\ Len(S) <= 2
              /\ Len(S) = 2 =>
                    /\ S[2].min = (IF S[1].res = "k" THEN (S[1].min * 8) \div 10
                                   ELSE (S[1].min * 85) \div 100)
                    /\ (IsDone(t) /\ S[2].res # "accepted") => Failed(t)

\* C8 (amended): after such a rejection the swap is rebuilt once with
\* int(0.80 min) / int(0.85 min) under the same nonce; every later send carries
\* that rebuilt transaction; buy_tokens sends it once, sell_tokens sends it
\* again only after "nonce too low" and at most MaxRetries times; a trade whose
\* rebuilt transaction was not accepted ends with the retry-failed result.
C8_RebuildsOnceAndNonceRetriesInSell ==
    \A t \in Trades :
        LET S == SwapSends(t)
        IN (S # <<>> /\ S[1].res \in {"k", "insufficientOutput"})
           => /\ \A i \in 2..Len(S) :
                    /\ S[i].min = (IF S[1].res = "k" THEN (S[1].min * 8) \div 10
                                   ELSE (S[1].min * 85) \div 100)
                    /\ S[i].nonce = S[1].nonce
                    /\ S[i].amt = S[1].amt
              /\ \A i \in 2..(Len(S) - 1) :
                    tr[t].dir = "Sell" /\ S[i].res = "nonceTooLow"
              /\ Len(S) <= 1 + (IF tr[t].dir = "Buy" THEN 1 ELSE MaxRetries)
              /\ IsDone(t) =>
                    IF Len(S) >= 2 /\ S[Len(S)].res = "accepted"
                      THEN tr[t].result.success
                      ELSE Failed(t) /\ tr[t].result.error = "retry failed"
C8_Witness ==
    \E t \in Trades :
        /\ IsDone(t)
        /\ tr[t].dir = "Sell"
        /\ Len(SwapSends(t)) = 1 + MaxRetries
        /\ SwapSends(t)[1].res = "k"
        /\ SwapSends(t)[1].min > 1
        /\ SwapSends(t)[2].res = "nonceTooLow"

C10_FailedQuoteAborts ==
    \A t \in Trades :
        \A q \in Positions(t, {"quote"}) :
            log[t][q].res # "ok"
            => /\ Failed(t)
               /\ Positions(t, {"quote"}) = {q}
               /\ Len(log[t]) = q
               /\ Sims(t) = <<>>
               /\ SwapSends(t) = <<>>

\* C11: a sell whose wallet holds less than the requested amount ends at the
\* balance check with the insufficient-balance failure: no allowance read, no
\* approve, no simulation and no send is ever issued in that trade.
C11_SellInsufficientBalanceAborts ==
    \A t \in Trades :
        \A b \in Positions(t, {"balanceOf"}) :
            log[t][b].res = "less"
            => /\ Failed(t)
               /\ tr[t].result.error = "Insufficient token balance"
               /\ Len(log[t]) = b
               /\ Positions(t, {"allowance", "approveSend", "simulate", "send"}) = {}

\* The allowance an allowance read returned covers the amount it was read for.
\* (Both are in the token's base units when the exponents agree; an amount
\* converted with the fallback of 18 decimals for a 6-decimals token is 10^12
\* times larger than the allowance's unit and is not covered.)
Covered(e) == e.allowance.d = e.amt.d /\ e.allowance.m >= e.amt.m

\* C12: when the allowance read returns at least the required amount, the gate
\* returns success without any further call: the next call of the trade, if
\* any, is the quote; the trade has no approve send and no approval failure;
\* the chain has taken no approve, so the allowance is as it was read.
C12_SufficientAllowanceSubmitsNothing ==
    \A t \in Trades :
        \A a \in Positions(t, {"allowance"}) :
            (log[t][a].res = "ok" /\ Covered(log[t][a]))
            => /\ Positions(t, {"approveSend"}) = {}
               /\ Len(log[t]) > a => log[t][a + 1].op = "quote"
               /\ tr[t].pc \notin {"approveGas", "approveNonce", "approveSend"}
               /\ tr[t].result.error # "Approval failed"
               /\ ~chain.approvePending
               /\ chain.allowance = log[t][a].allowance
C12_Witness ==
    \E t \in Trades :
        /\ IsDone(t)
        /\ tr[t].result.success
        /\ \E a \in Positions(t, {"allowance"}) :
              /\ log[t][a].res = "ok"
              /\ Covered(log[t][a])
              /\ log[t][a].amt.m > 0

\* C13: a sell sends at most one approve transaction; a failed allowance read
\* or a rejected approve send ends the trade with the approval failure, and a
\* trade that ended so (build and sign failures included) has issued no quote,
\* no simulation and no swap send.
C13_ApprovalFailureEndsSell ==
    \A t \in Trades :
        LET A == Positions(t, {"allowance"})
            P == Positions(t, {"approveSend"})
            Swap == Positions(t, {"quote", "simulate", "send"})
        IN /\ Cardinality(P) <= 1
           /\ Cardinality(A) <= 1
           /\ ((\E a \in A : log[t][a].res = "error")
                  \/ (\E p \in P : log[t][p].res # "accepted"))
              => /\ Failed(t)
                 /\ tr[t].result.error = "Approval failed"
           /\ tr[t].result.error = "Approval failed" => Failed(t) /\ Swap = {}
C13_Witness ==
    \E t \in Trades :
        /\ IsDone(t)
        /\ tr[t].result.error = "Approval failed"
        /\ \E p \in Positions(t, {"approveSend"}) : log[t][p].res = "nonceTooLow"

\* C14: the approve transaction the gate is about to send carries 150% of the
\* gas price the node suggested to the gate (floor of price * 3 / 2), as the
\* swap transaction does, and the nonce the gate's nonce read resolved.
C14_ApproveGasPriceBoosted ==
    \A t \in Trades :
        tr[t].pc = "approveSend"
        => LET G == Positions(t, {"gasPrice"})
               N == Positions(t, {"nonceRead"})
           IN /\ G # {} /\ N # {}
              /\ tr[t].aNonce = log[t][MaxOf(N)].nonce
              /\ log[t][MaxOf(G)].min > 0
                    => tr[t].aGasPrice =
                          [v |-> (log[t][MaxOf(G)].min * 3) \div 2, unit |-> "wei"]

C16_UndeployedFeeContractFallsBack ==
    \A t \in Trades :
        (\E g \in Positions(t, {"getCode"}) : log[t][g].res = "empty")
        => /\ tr[t].result.error # "Trading contract not deployed or invalid"
           /\ \A i \in Positions(t, {"simulate", "send"}) : log[t][i].to = "router"

\* The nonce reads of the swap submitter: those after the quote (the gate's
\* read precedes it).
SwapNonceReads(t) ==
    {n \in Positions(t, {"nonceRead"}) :
        \E q \in Positions(t, {"quote"}) : q < n}

SwapGasPriceRead(t) == log[t][MaxOf(Positions(t, {"gasPrice"}))]

\* C18 (as stated): every trade that sent a swap transaction read a suggested
\* gas price and built the transaction with floor(price * 3 / 2).
C18_GasPriceIsBoostedSuggestion ==
    \A t \in Trades :
        Positions(t, {"send"}) # {}
        => /\ Positions(t, {"gasPrice"}) # {}
           /\ SwapGasPriceRead(t).min > 0
           /\ tr[t].gasPrice =
                 [v |-> (SwapGasPriceRead(t).min * 3) \div 2, unit |-> "wei"]

\* C18 (amended): the swap transactions of a trade carry floor(price * 3 / 2)
\* of the suggested gas price the submitter read, and the default of 10 gwei
\* when that read failed.
C18_GasPriceBoostedOrDefault ==
    \A t \in Trades :
        Positions(t, {"send"}) # {}
        => /\ Positions(t, {"gasPrice"}) # {}
           /\ tr[t].gasPrice =
                 (IF SwapGasPriceRead(t).min > 0
                    THEN [v |-> (SwapGasPriceRead(t).min * 3) \div 2, unit |-> "wei"]
                    ELSE [v |-> DefaultGasPriceGwei, unit |-> "gwei"])
C18_Witness ==
    \E t \in Trades :
        /\ IsDone(t)
        /\ tr[t].result.success
        /\ Len(SwapSends(t)) = 2
        /\ SwapGasPriceRead(t).min = MaxGasPrice
        /\ tr[t].gasPrice.v > MaxGasPrice

\* C19: when the first simulation fails with none of the three known
\* signatures, it stays the only simulation, the gas estimate is the default
\* of 300000, and the trade goes on to the gas price, the nonce and the send:
\* it does not end with an estimation failure, and a success reports 300000.
C19_UnknownSimulationErrorUsesDefaultGas ==
    \A t \in Trades :
        (Len(Sims(t)) >= 1 /\ Sims(t)[1].res = "other")
        => /\ Len(Sims(t)) = 1
           /\ tr[t].gas = DefaultGas
           /\ tr[t].pc \in {"gasPrice", "nonce", "send", "resend", "done"}
           /\ tr[t].result.error \notin
                 {ErrInvalidAmounts, ErrInsufficientOutput, ErrShallow}
           /\ (IsDone(t) /\ tr[t].result.success) => tr[t].result.gas = DefaultGas
           /\ tr[t].pc \in {"send", "resend"} => Positions(t, {"nonceRead"}) # {}
C19_Witness ==
    \E t \in Trades :
        /\ IsDone(t)
        /\ tr[t].result.success
        /\ Sims(t)[1].res = "other"
        /\ SwapSends(t)[Len(SwapSends(t))].res = "accepted"

\* C20: a buy whose quote, single simulation and first send succeed makes
\* exactly one send; the transaction carries the slippage guard value of the
\* quote output (995 for an output of 1000 at 50 bps); the trade ends with
\* success and the hash of that transaction.
C20_BuySuccessSendsOnce ==
    \A t \in Trades :
        (/\ tr[t].dir = "Buy"
         /\ tr[t].quoteOk
         /\ Len(Sims(t)) >= 1 /\ Sims(t)[1].res = "ok"
         /\ Len(SwapSends(t)) >= 1 /\ SwapSends(t)[1].res = "accepted")
        => LET exact == (tr[t].out * (10000 - tr[t].bps)) \div 10000
               guard == IF exact > 0 THEN exact ELSE (tr[t].out * 95) \div 100
           IN /\ Len(SwapSends(t)) = 1
              /\ Len(Sims(t)) = 1
              /\ Cardinality(Positions(t, {"quote"})) = 1
              /\ SwapSends(t)[1].min = guard
              /\ (tr[t].out = 1000 /\ tr[t].bps = 50) => SwapSends(t)[1].min = 995
              /\ IsDone(t)
              /\ tr[t].result.success
              /\ tr[t].result.tx = TxHash(SwapSends(t)[1].nonce, SwapSends(t)[1].min)
C20_Witness ==
    \E t \in Trades :
        /\ IsDone(t)
        /\ tr[t].dir = "Buy"
        /\ tr[t].out = 1000
        /\ tr[t].bps = 50
        /\ Len(Sims(t)) = 1 /\ Sims(t)[1].res = "ok"
        /\ Len(SwapSends(t)) = 1 /\ SwapSends(t)[1].res = "accepted"
        /\ tr[t].result.success

\* C21: every trade ends with a structured result.  A trade that has not
\* returned can always take its next step, it issues a bounded number of calls
\* (13 outside the sender, which sends each of the two swap transactions at
\* most MaxRetries times), and a trade that returned has success with the hash
\* of a transaction, or no success with a non-empty error.
C21_StructuredResultAlways ==
    \A t \in Trades :
        /\ Len(log[t]) <= 13 + 2 * MaxRetries
        /\ tr[t].pc \notin {"idle", "done"} => ENABLED Step(t, QuoteOutputs)
        /\ IsDone(t) =>
              \/ /\ tr[t].result.success
                 /\ tr[t].result.tx # NoTx
                 /\ tr[t].result.error = ""
              \/ /\ ~tr[t].result.success
                 /\ tr[t].result.tx = NoTx
                 /\ tr[t].result.error \notin {"", "none"}
\* An exception that reaches the outer handler of sell_tokens (the swap cannot
\* be built) comes back as a result.
C21_Witness ==
    \E t \in Trades :
        /\ IsDone(t)
        /\ tr[t].dir = "Sell"
        /\ tr[t].result.error = "Unexpected error"
        /\ SwapNonceReads(t) # {}

\* C22: a trade whose token address is invalid or whose amount is not positive
\* returns failure straight after the contract check: it has made no quote,
\* allowance, approve, simulation or send call (nor any other call after the
\* check), and nothing was retried.
C22_InvalidInputFailsWithoutCalls ==
    \A t \in Trades :
        (tr[t].pc \notin {"idle", "getCode"}
            /\ (~tr[t].tokenValid \/ tr[t].amount <= 0)) =>
            /\ Failed(t)
            /\ Len(log[t]) = 1
            /\ log[t][1].op = "getCode"
            /\ Positions(t, {"quote", "allowance", "approveSend", "simulate",
                             "send"}) = {}
\* A negative amount for a valid token is rejected after a contract check that
\* found code.
C22_Witness ==
    \E t \in Trades :
        /\ Failed(t) /\ tr[t].tokenValid /\ tr[t].amount < 0
        /\ tr[t].result.error = "Invalid amount"
        /\ log[t][1].res = "code"


C24_TwoHopPathEverywhere ==
    \A t \in Trades :
        \A i \in Positions(t, {"quote", "simulate", "send"}) :
            /\ Len(log[t][i].path) = 2
            /\ log[t][i].path[1] # log[t][i].path[2]
            /\ tr[t].dir = "Buy" => log[t][i].path = <<WrappedNative, Token>>
            /\ tr[t].dir = "Sell" => log[t][i].path = <<Token, WrappedNative>>
            /\ \A j \in Positions(t, {"quote", "simulate", "send"}) :
                  log[t][i].path = log[t][j].path
\* A sell that was quoted, simulated three times and sent twice.
C24_Witness ==
    \E t \in Trades :
        /\ tr[t].dir = "Sell"
        /\ Positions(t, {"quote"}) # {}
        /\ Len(Sims(t)) = 3
        /\ Len(SwapSends(t)) >= 2

C26_CascadeOnlyAfterPoolInvariant ==
    \A t \in Trades :
        /\ Len(Sims(t)) <= 3
        /\ Len(Sims(t)) >= 2 => Sims(t)[1].res = "k"
        /\ Len(Sims(t)) >= 3 => Sims(t)[2].res = "k"

\* C27: when a sell has returned failure, the chain has taken none of its swap
\* transactions; it can have taken its approve, and then the approved amount
\* is still pending or in force as the allowance.
C27_FailedSellLeavesOnlyApproval ==
    \A t \in Trades :
        (Failed(t) /\ tr[t].dir = "Sell") =>
            /\ \A i \in Positions(t, {"send"}) : log[t][i].res # "accepted"
            /\ \A i \in Positions(t, {"approveSend"}) :
                  log[t][i].res = "accepted" =>
                      /\ chain.approving = log[t][i].amt
                      /\ chain.approvePending \/ chain.allowance = log[t][i].amt
\* A failed sell whose approve was taken and confirmed and whose swap was sent
\* and refused.
C27_Witness ==
    \E t \in Trades :
        /\ Failed(t) /\ tr[t].dir = "Sell"
        /\ \E i \in Positions(t, {"approveSend"}) : log[t][i].res = "accepted"
        /\ ~chain.approvePending
        /\ Positions(t, {"send"}) # {}

C29_GuardIsIntegerFloor ==
    \A t \in Trades :
        tr[t].pc = "guarded" =>
            LET f == (tr[t].out * (10000 - tr[t].bps)) \div 10000
            IN tr[t].min = IF f > 0 THEN f ELSE (tr[t].out * 95) \div 100

\* C30: the gas estimate a successful trade reports is the value returned by
\* the simulation that succeeded, whichever of the three it was; it is the
\* default only when the single simulation failed with an unrecognised reason.
C30_GasEstimateFromSucceededSimulation ==
    \A t \in Trades :
        (IsDone(t) /\ tr[t].result.success) =>
            LET S == Sims(t)
            IN IF S # <<>> /\ S[Len(S)].res = "ok"
                 THEN tr[t].result.gas = tr[t].simGas
                 ELSE /\ tr[t].result.gas = DefaultGas
                      /\ Len(S) = 1 /\ S[1].res = "other"

\* C31: in a sell, the spender the approval gate checked and approved is the
\* contract every submitted swap of the trade is sent to, also after the swap
\* call fell back from the fee contract to the router.
C31_SpenderIsSwapTarget ==
    \A t \in Trades :
        tr[t].dir = "Sell" =>
            \A g \in Positions(t, {"allowance", "approveSend"}) :
                \A w \in Positions(t, {"send"}) :
                    log[t][g].to = log[t][w].to

\* C32: in a sell whose approve the chain took with nonce n, every swap send
\* of the trade carries a nonce greater than n, whichever nonce read answered.
C32_SwapNonceAboveApproveNonce ==
    \A t \in Trades :
        tr[t].dir = "Sell" =>
            \A g \in Positions(t, {"approveSend"}) :
                log[t][g].res = "accepted" =>
                    \A w \in Positions(t, {"send"}) :
                        log[t][w].nonce > log[t][g].nonce

\* C33: a sell is about to simulate or to send its swap only in states where
\* the allowance in force on the chain is at least the sell amount in base
\* units: an approve the gate sent has taken effect by then.
C33_AllowanceInForceBeforeSwap ==
    \A t \in Trades :
        (tr[t].dir = "Sell"
            /\ tr[t].pc \in {"sim0", "sim1", "sim2", "send", "resend"})
        => GeqBase(chain.allowance, tr[t].amountIn)

\* C34: every send of a trade's first swap transaction carries the minimum
\* output the trade computed before the simulations (the slippage guard of the
\* quote), however many simulations it took; the sends after a rejection for
\* K or insufficient output carry floor(80%) resp. floor(85%) of that minimum;
\* the 70% and 50% minimums of the simulations are in no send.
C34_SendsCarryGuardMinimum ==
    \A t \in Trades :
        LET S == SwapSends(t)
            R == {j \in 1..Len(S) : S[j].res \in {"k", "insufficientOutput"}}
        IN \A i \in 1..Len(S) :
              IF \E j \in R : j < i
                THEN S[i].min = IF S[MinOf(R)].res = "k"
                                  THEN (tr[t].min * 4) \div 5
                                  ELSE (tr[t].min * 17) \div 20
                ELSE /\ S[i].min = tr[t].min
                     /\ S[i].min = Sims(t)[1].min
                     /\ tr[t].quoteOk =>
                           S[i].min = SlippageGuard(tr[t].out, tr[t].bps)
\* A trade whose estimate succeeded at the 70% simulation only, whose first
\* send carried the whole guard minimum and was rejected for K, and whose
\* resubmission carried 80% of it.
C34_Witness ==
    \E t \in Trades :
        /\ Len(Sims(t)) = 2
        /\ Sims(t)[2].res = "ok"
        /\ Sims(t)[2].min = 696
        /\ Len(SwapSends(t)) = 2
        /\ SwapSends(t)[1].min = 995
        /\ SwapSends(t)[1].res = "k"
        /\ SwapSends(t)[2].min = 796

\* C35: when neither the pending nor the confirmed transaction count could be
\* read by the swap submitter, the trade sends no swap transaction; otherwise
\* every send carries the count that the read returned.
C35_NoSendWithoutNonceRead ==
    \A t \in Trades :
        \A n \in SwapNonceReads(t) :
            /\ log[t][n].res = "none" => Positions(t, {"send"}) = {}
            /\ \A w \in Positions(t, {"send"}) :
                  log[t][w].nonce = IF log[t][n].res = "pending"
                                      THEN log[t][n].pending
                                      ELSE log[t][n].confirmed

\* C36: an estimate that get_token_price_estimate returns was produced by the
\* router: the call asked getAmountsOut, and the estimate's output is the last
\* amount of the answer.
C36_EstimateProducedByRouter ==
    \A t \in Trades :
        (tr[t].pc = "quoted" /\ tr[t].dir = "Buy" /\ tr[t].quoteOk) =>
            /\ Positions(t, {"quote"}) # {}
            /\ \A q \in Positions(t, {"quote"}) : log[t][q].res = "ok"
            /\ tr[t].out = env.pool.out

\* C37 (as stated): for one quote output the slippage guard does not grow
\* with the tolerance: of two guards computed from the same output, the one
\* for the larger tolerance is not the larger one.
C37_GuardMonotoneInTolerance ==
    \A t, u \in Trades :
        (/\ tr[t].pc = "guarded" /\ tr[u].pc = "guarded"
         /\ tr[t].out = tr[u].out
         /\ tr[t].bps <= tr[u].bps)
        => tr[u].min <= tr[t].min
\* C37 (amended): the same, for the pairs where the product computed for the
\* larger tolerance is positive, so that its guard is not the 95% substitute.
C37_GuardMonotoneWithoutSubstitute ==
    \A t, u \in Trades :
        (/\ tr[t].pc = "guarded" /\ tr[u].pc = "guarded"
         /\ tr[t].out = tr[u].out
         /\ tr[t].bps <= tr[u].bps
         /\ MulSlippage(tr[u].out, tr[u].bps) > 0)
        => tr[u].min <= tr[t].min
\* Two guards of the output 100, for 0.5% and for 90%: 99 and 9.
C37_Witness ==
    /\ tr["t1"].pc = "guarded" /\ tr["t2"].pc = "guarded"
    /\ tr["t1"].out = 100
    /\ tr["t1"].bps = 50 /\ tr["t2"].bps = 9000
    /\ tr["t1"].min = 99 /\ tr["t2"].min = 9

\* C38: a sell returns the insufficient-balance failure only when balanceOf
\* was read and the wallet holds less than the requested amount.
C38_InsufficientBalanceOnlyWhenRead ==
    \A t \in Trades :
        (IsDone(t) /\ tr[t].result.error = "Insufficient token balance") =>
            \E b \in Positions(t, {"balanceOf"}) :
                /\ log[t][b].read = "ok"
                /\ log[t][b].res = "less"

\* C39: a buy makes no approve send and at most 2 swap sends; a sell makes at
\* most 1 approve send and at most 2 * MaxRetries swap sends; only the last
\* swap send of a trade can be one the chain took.
C39_SendCallsBounded ==
    \A t \in Trades :
        LET S == SwapSends(t)
            A == Positions(t, {"approveSend"})
        IN /\ Cardinality(A) <= 1
           /\ tr[t].dir = "Buy" => (A = {} /\ Len(S) <= 2)
           /\ tr[t].dir = "Sell" => Len(S) <= 2 * MaxRetries
           /\ \A i \in 1..Len(S) : S[i].res = "accepted" => i = Len(S)
           /\ (S # <<>> /\ S[Len(S)].res = "accepted") => IsDone(t)
\* A sell that sent its approve, had its first swap refused for K and sent
\* the rebuilt swap MaxRetries times.
C39_Witness ==
    \E t \in Trades :
        /\ tr[t].dir = "Sell"
        /\ Positions(t, {"approveSend"}) # {}
        /\ Len(SwapSends(t)) = 1 + MaxRetries
        /\ SwapSends(t)[1].res = "k"

=============================================================================
